---- MODULE Spec2Model ----
(***************************************************************************)
(* Model of src/app.py: the milk supply prediction and route demo.  One    *)
(* HTTP request is parsed, validated and answered by SimpleHandler.        *)
(*                                                                         *)
(* Representation.                                                         *)
(*   - A string is a sequence of symbols.  The symbols are the comma ",",  *)
(*     the blank " ", and lexemes: maximal fragments without comma or      *)
(*     blank such as "A", "100.07", "abc", "nan".  The inputs never put    *)
(*     two lexemes next to each other, so a token of one lexeme is that    *)
(*     lexeme and a token of several symbols has an inner blank.           *)
(*   - A Python float is a record [k, v]: k = "num" with v the value in    *)
(*     units of 1/10000, or k = "nan".  Python's None is k = "none".       *)
(*     Every numeric lexeme of the inputs has a value the arithmetic of    *)
(*     the handler represents exactly in that unit, and no rounding tie.   *)
(***************************************************************************)
EXTENDS Integers, Sequences, FiniteSets, TLC

VARIABLES req, phase, out, page, log

vars == <<req, phase, out, page, log>>

(***************************************************************************)
(* Bounds of the model.                                                    *)
(***************************************************************************)
\* Most comma separated segments in one submitted list field.
MaxSegs == 2

\* Most requests one run of the server answers.
MaxRequests == 3

(***************************************************************************)
(* Floats.                                                                 *)
(***************************************************************************)
Num(n) == [k |-> "num", v |-> n]

NaN == [k |-> "nan", v |-> 0]

None == [k |-> "none", v |-> 0]

\* The numeric lexemes float() accepts, with their values in 1/10000.
LexValue(sym) ==
    CASE sym = "100.07" -> Num(1000700)
      [] sym = "105.07" -> Num(1050700)
      [] sym = "90"     -> Num(900000)
      [] sym = "-20"    -> Num(-200000)
      [] sym = "5.004"  -> Num(50040)
      [] sym = "-5.004" -> Num(-50040)
      [] sym = "0"      -> Num(0)
      [] sym = "-3"     -> Num(-30000)
      [] sym = "nan"    -> NaN
      [] OTHER          -> None

\* val * 1.05
FMul105(x) == IF x.k = "nan" THEN NaN ELSE Num((x.v * 105) \div 100)

\* max(0.0, x): the first argument stays unless x > 0.0 (false for nan).
FMax0(x) == IF x.k = "num" /\ x.v > 0 THEN x ELSE Num(0)

\* round(x, 2): to the nearest hundredth, a tie to the even neighbour.
FRound2(x) ==
    IF x.k = "nan" THEN NaN
    ELSE LET q == x.v \div 100
             r == x.v % 100
         IN  IF r < 50 THEN Num(q * 100)
             ELSE IF r > 50 THEN Num((q + 1) * 100)
             ELSE IF q % 2 = 0 THEN Num(q * 100)
             ELSE Num((q + 1) * 100)

FAdd(a, b) == IF a.k = "nan" \/ b.k = "nan" THEN NaN ELSE Num(a.v + b.v)

RECURSIVE FSumFrom(_, _, _)
FSumFrom(acc, xs, i) ==
    IF i > Len(xs) THEN acc ELSE FSumFrom(FAdd(acc, xs[i]), xs, i + 1)

\* sum(xs): left to right from 0.
FSum(xs) == FSumFrom(Num(0), xs, 1)

\* a >= b on floats: false when either is nan.
FGe(a, b) == a.k = "num" /\ b.k = "num" /\ a.v >= b.v

\* a <= 0 on floats: false for nan.
FLe0(a) == a.k = "num" /\ a.v <= 0

(***************************************************************************)
(* Strings.                                                                *)
(***************************************************************************)
RECURSIVE LStrip(_)
LStrip(s) == IF s # <<>> /\ Head(s) = " " THEN LStrip(Tail(s)) ELSE s

RECURSIVE RStrip(_)
RStrip(s) ==
    IF s # <<>> /\ s[Len(s)] = " " THEN RStrip(SubSeq(s, 1, Len(s) - 1)) ELSE s

\* str.strip()
Strip(s) == RStrip(LStrip(s))

RECURSIVE SplitFrom(_, _, _)
SplitFrom(s, i, cur) ==
    IF i > Len(s) THEN <<cur>>
    ELSE IF s[i] = "," THEN <<cur>> \o SplitFrom(s, i + 1, <<>>)
    ELSE SplitFrom(s, i + 1, Append(cur, s[i]))

\* str.split(","): "" gives one empty segment.
Split(s) == SplitFrom(s, 1, <<>>)

RECURSIVE StripNonEmpty(_)
StripNonEmpty(segs) ==
    IF segs = <<>> THEN <<>>
    ELSE IF Strip(Head(segs)) # <<>>
         THEN <<Strip(Head(segs))>> \o StripNonEmpty(Tail(segs))
         ELSE StripNonEmpty(Tail(segs))

\* [t.strip() for t in raw.split(",") if t.strip()]
Tokens(raw) == StripNonEmpty(Split(raw))

\* float(x) succeeds: x, blanks at its ends aside, is one numeric lexeme.
IsFloat(tok) == Len(Strip(tok)) = 1 /\ LexValue(Strip(tok)[1]).k # "none"

\* float(x) for a token float() accepts.
ToFloat(tok) == LexValue(Strip(tok)[1])

\* [float(x) for x in toks] raises ValueError iff some token is refused.
AllFloat(toks) == \A i \in 1..Len(toks) : IsFloat(toks[i])

Floats(toks) == [i \in 1..Len(toks) |-> ToFloat(toks[i])]

EscapeSym(c) ==
    CASE c = "&" -> "&amp;"
      [] c = "<" -> "&lt;"
      [] c = ">" -> "&gt;"
      [] c = "\"" -> "&quot;"
      [] c = "'" -> "&#x27;"
      [] OTHER   -> c

\* html.escape
Escape(s) == [i \in 1..Len(s) |-> EscapeSym(s[i])]

(***************************************************************************)
(* The validation messages of do_POST and the banner of a result.          *)
(***************************************************************************)
MsgNoVillage == "Please provide at least one village name."

MsgNoMilk == "Please provide milk collection numbers (comma separated)."

MsgMilkNumbers == "Milk values must be numbers (e.g. 120, 85.5)."

MsgMilkCount == "Number of milk data entries does not match number of villages. Provide one value per village or one value to broadcast."

MsgDistNumbers == "Distance values must be numbers (e.g. 5, 8.2)."

MsgDistCount == "If you provide distances, provide the same number as villages."

MsgCapacity == "Vehicle capacity must be a positive number."

MsgSuccess == "Result generated successfully."

Err(m) == <<"error", m>>

(***************************************************************************)
(* The pure functions of the module.                                       *)
(***************************************************************************)
\* predict_supply without the floor at zero.
predict_supply_nofloor(milk_data) ==
    [i \in 1..Len(milk_data) |-> FRound2(FMul105(milk_data[i]))]

predict_supply(milk_data) ==
    [i \in 1..Len(milk_data) |-> FRound2(FMax0(FMul105(milk_data[i])))]

\* optimize_route taking a total of zero for no total.
optimize_route_falsy(villages, distances) ==
    IF distances.some /\ FRound2(FSum(distances.vals)) # Num(0)
    THEN [route |-> villages, total |-> FRound2(FSum(distances.vals))]
    ELSE [route |-> villages, total |-> None]

\* optimize_route visiting the villages last to first.
optimize_route_reversed(villages, distances) ==
    [route |-> [i \in 1..Len(villages) |-> villages[Len(villages) + 1 - i]],
     total |-> IF distances.some THEN FRound2(FSum(distances.vals)) ELSE None]

\* distances is [some, vals]: some = FALSE stands for None.
optimize_route(villages, distances) ==
    IF distances.some
    THEN [route |-> villages, total |-> FRound2(FSum(distances.vals))]
    ELSE [route |-> villages, total |-> None]

make_messages_html(msgs) ==
    [i \in 1..Len(msgs) |->
        [cls  |-> IF msgs[i][1] = "success" THEN "success" ELSE "alert",
         text |-> msgs[i][2]]]

Min(a, b) == IF a <= b THEN a ELSE b

\* zip(villages_list, predictions): as long as the shorter of the two.
Zip(villages_list, predictions) ==
    [i \in 1..Min(Len(villages_list), Len(predictions)) |->
        [name |-> Escape(villages_list[i]), value |-> predictions[i]]]

EmptySection ==
    [shown |-> FALSE, items |-> <<>>, route |-> <<>>, total_distance |-> None,
     total_predicted |-> None, capacity |-> None, verdict |-> "", cls |-> ""]

\* The result section of the page: empty unless result is set.
ResultSection(result, villages_list, predictions, route, total_distance, capacity, capacity_ok, total_predicted) ==
    IF result
    THEN [shown |-> TRUE,
          items |-> Zip(villages_list, predictions),
          route |-> [i \in 1..Len(route) |-> Escape(route[i])],
          total_distance |-> total_distance,
          total_predicted |-> IF capacity # None THEN total_predicted ELSE None,
          capacity |-> capacity,
          verdict |-> IF capacity = None THEN ""
                      ELSE IF capacity_ok = "True" THEN "Sufficient"
                      ELSE "Insufficient",
          cls |-> IF capacity = None THEN ""
                  ELSE IF capacity_ok = "True" THEN "success" ELSE "alert"]
    ELSE EmptySection

render_page(result, villages_list, predictions, route, total_distance, capacity, capacity_ok, total_predicted, form_values, messages) ==
    [messages |-> make_messages_html(messages),
     form     |-> [f \in DOMAIN form_values |-> Escape(form_values[f])],
     result_section |-> ResultSection(result, villages_list, predictions, route,
                                      total_distance, capacity, capacity_ok,
                                      total_predicted)]

EmptyForm == [villages |-> <<>>, milk_data |-> <<>>, distances |-> <<>>, capacity |-> <<>>]

(***************************************************************************)
(* do_POST, field by field.  Each step returns what it assigns and the     *)
(* messages it appends.                                                    *)
(***************************************************************************)
\* messages kept from the request before.
StaleMessages == out.messages

\* messages = []
NewMessages == <<>>

ParseVillages(raw) ==
    LET villages == Tokens(raw)
    IN  [villages |-> villages,
         msgs |-> IF villages = <<>> THEN <<Err(MsgNoVillage)>> ELSE <<>>]

ParseMilk(raw) ==
    LET milk_tokens == Tokens(raw)
    IN  IF milk_tokens = <<>>
        THEN [milk_data |-> <<>>, msgs |-> <<Err(MsgNoMilk)>>]
        ELSE IF AllFloat(milk_tokens)
        THEN [milk_data |-> Floats(milk_tokens), msgs |-> <<>>]
        ELSE [milk_data |-> <<>>, msgs |-> <<Err(MsgMilkNumbers)>>]

\* milk_data * len(villages)
Repeat(xs, n) == [i \in 1..(Len(xs) * n) |-> xs[((i - 1) % Len(xs)) + 1]]

\* Broadcast that never repeats a single value.
BroadcastNever(villages, milk_data) ==
    IF villages # <<>> /\ milk_data # <<>> /\ Len(milk_data) # Len(villages)
    THEN [milk_data |-> milk_data, msgs |-> <<Err(MsgMilkCount)>>]
    ELSE [milk_data |-> milk_data, msgs |-> <<>>]

\* Broadcast without the count check.
BroadcastUnchecked(villages, milk_data) ==
    IF villages # <<>> /\ milk_data # <<>> /\ Len(milk_data) = 1 /\ Len(villages) > 1
    THEN [milk_data |-> [i \in 1..Len(villages) |-> milk_data[1]], msgs |-> <<>>]
    ELSE [milk_data |-> milk_data, msgs |-> <<>>]

Broadcast(villages, milk_data) ==
    IF villages # <<>> /\ milk_data # <<>>
    THEN IF Len(milk_data) = 1 /\ Len(villages) > 1
         THEN [milk_data |-> Repeat(milk_data, Len(villages)), msgs |-> <<>>]
         ELSE IF Len(milk_data) # Len(villages)
         THEN [milk_data |-> milk_data, msgs |-> <<Err(MsgMilkCount)>>]
         ELSE [milk_data |-> milk_data, msgs |-> <<>>]
    ELSE [milk_data |-> milk_data, msgs |-> <<>>]

NoDistances == [some |-> FALSE, vals |-> <<>>]

ParseDistances(raw, villages) ==
    IF Strip(raw) # <<>>
    THEN LET dist_tokens == Tokens(raw)
         IN  IF ~AllFloat(dist_tokens)
             THEN [distances |-> NoDistances, msgs |-> <<Err(MsgDistNumbers)>>]
             ELSE IF Len(dist_tokens) # Len(villages)
             THEN [distances |-> NoDistances, msgs |-> <<Err(MsgDistCount)>>]
             ELSE [distances |-> [some |-> TRUE, vals |-> Floats(dist_tokens)],
                   msgs |-> <<>>]
    ELSE [distances |-> NoDistances, msgs |-> <<>>]

\* vehicle_capacity keeps the parsed value when the sign test raises.
ParseCapacity(raw) ==
    LET raw_capacity == Strip(raw)
    IN  IF raw_capacity # <<>>
        THEN IF ~IsFloat(raw_capacity)
             THEN [vehicle_capacity |-> None, msgs |-> <<Err(MsgCapacity)>>]
             ELSE IF FLe0(ToFloat(raw_capacity))
             THEN [vehicle_capacity |-> ToFloat(raw_capacity),
                   msgs |-> <<Err(MsgCapacity)>>]
             ELSE [vehicle_capacity |-> ToFloat(raw_capacity), msgs |-> <<>>]
        ELSE [vehicle_capacity |-> None, msgs |-> <<>>]

\* The filter of err_msgs looking for the class of the alert.
ErrMsgsWrongTag(messages) ==
    [i \in 1..0 |-> messages[i]]

RECURSIVE ErrMsgs(_)
\* [m for t, m in messages if t == "error"]
ErrMsgs(messages) ==
    IF messages = <<>> THEN <<>>
    ELSE IF Head(messages)[1] = "error"
         THEN <<Head(messages)[2]>> \o ErrMsgs(Tail(messages))
         ELSE ErrMsgs(Tail(messages))

\* capacity_ok with > for >=.
CapacityOkStrict(vehicle_capacity, total_predicted) ==
    IF vehicle_capacity # None
    THEN IF FGe(vehicle_capacity, total_predicted)
            /\ vehicle_capacity # total_predicted
         THEN "True" ELSE "False"
    ELSE "None"

\* capacity_ok: None unless a capacity was parsed.
CapacityOk(vehicle_capacity, total_predicted) ==
    IF vehicle_capacity # None
    THEN IF FGe(vehicle_capacity, total_predicted) THEN "True" ELSE "False"
    ELSE "None"

\* The locals of do_POST when it returns, and the page it writes.
Handle(form) ==
    LET v   == ParseVillages(form.villages)
        m   == ParseMilk(form.milk_data)
        b   == Broadcast(v.villages, m.milk_data)
        d   == ParseDistances(form.distances, v.villages)
        c   == ParseCapacity(form.capacity)
        messages == NewMessages \o v.msgs \o m.msgs \o b.msgs \o d.msgs \o c.msgs
        err_msgs == ErrMsgs(messages)
        parsed == [messages |-> messages, villages |-> v.villages,
                   milk_data |-> b.milk_data, distances |-> d.distances,
                   vehicle_capacity |-> c.vehicle_capacity]
    IN  IF err_msgs # <<>>
        THEN [locals |-> parsed @@
                  [computed |-> FALSE, predictions |-> <<>>, route_order |-> <<>>,
                   total_distance |-> None, total_predicted |-> None,
                   capacity_ok |-> "None"],
              page |-> render_page(FALSE, <<>>, <<>>, <<>>, None, None, "None", None,
                                   form,
                                   [i \in 1..Len(err_msgs) |-> Err(err_msgs[i])])]
        ELSE LET predictions == predict_supply(b.milk_data)
                 r == optimize_route(v.villages, d.distances)
                 total_predicted == FRound2(FSum(predictions))
                 capacity_ok == CapacityOk(c.vehicle_capacity, total_predicted)
             IN  [locals |-> parsed @@
                      [computed |-> TRUE, predictions |-> predictions,
                       route_order |-> r.route, total_distance |-> r.total,
                       total_predicted |-> total_predicted,
                       capacity_ok |-> capacity_ok],
                  page |-> render_page(TRUE, v.villages, predictions, r.route,
                                       r.total, c.vehicle_capacity, capacity_ok,
                                       total_predicted, form,
                                       <<<<"success", MsgSuccess>>>>)]

NoLocals ==
    [messages |-> <<>>, villages |-> <<>>, milk_data |-> <<>>,
     distances |-> NoDistances, vehicle_capacity |-> None, computed |-> FALSE,
     predictions |-> <<>>, route_order |-> <<>>, total_distance |-> None,
     total_predicted |-> None, capacity_ok |-> "None"]

NoPage == [messages |-> <<>>, form |-> EmptyForm, result_section |-> EmptySection]

(***************************************************************************)
(* The requests the model submits.  A list field is up to MaxSegs comma    *)
(* separated segments, or one of a few irregular strings.                  *)
(***************************************************************************)
VillageSegs == {<<>>, <<" ", "A", " ">>, <<"B">>}

MilkSegs == {<<" ", "100.07">>, <<"-20">>}

DistSegs == {<<" ", "5.004">>, <<"-5.004">>}

SegSeqs(S) == UNION {[1..n -> S] : n \in 1..MaxSegs}

RECURSIVE Join(_)
\* ",".join(segs)
Join(segs) ==
    IF Len(segs) = 1 THEN segs[1] ELSE segs[1] \o <<",">> \o Join(Tail(segs))

VillageInputs == {Join(segs) : segs \in SegSeqs(VillageSegs)}

\* Blank, not a number, a token with an inner blank, nan, an empty segment.
MilkInputs ==
    {<<" ">>, <<"abc">>, <<"abc", ",", " ", "100.07">>, <<"-20", " ", "100.07">>,
     <<"nan">>, <<"-20", ",", " ", ",", "nan">>}
    \cup {Join(segs) : segs \in SegSeqs(MilkSegs)}

\* Blank, commas alone, not a number, an empty segment.
DistInputs ==
    {<<>>, <<" ", ",">>, <<"x">>, <<"x", ",", "-5.004">>,
     <<"5.004", ",", ",", "-5.004">>}
    \cup {Join(segs) : segs \in SegSeqs(DistSegs)}

CapacityInputs ==
    {<<>>, <<" ">>, <<" ", "105.07", " ">>, <<"90">>, <<"0">>, <<"-3">>,
     <<"nan">>, <<"abc">>}

\* The submissions of the specification that serves several requests.
ServeForms ==
    {[villages |-> <<"B">>, milk_data |-> <<"-20">>, distances |-> <<>>,
      capacity |-> <<"90">>],
     [villages |-> <<"B", ",", " ", "A", " ">>, milk_data |-> <<" ", "100.07">>,
      distances |-> <<" ", "5.004", ",", "-5.004">>, capacity |-> <<" ">>],
     [villages |-> <<>>, milk_data |-> <<"abc">>, distances |-> <<"x">>,
      capacity |-> <<"0">>],
     [villages |-> <<"B">>, milk_data |-> <<" ">>, distances |-> <<>>,
      capacity |-> <<"nan">>],
     [villages |-> <<" ", "A", " ", ",", "B">>, milk_data |-> <<"-20", ",", " ", "100.07">>,
      distances |-> <<" ", ",">>, capacity |-> <<" ", "105.07", " ">>],
     [villages |-> <<" ", "A", " ">>, milk_data |-> <<" ", "100.07">>,
      distances |-> <<"-5.004">>, capacity |-> <<" ", "105.07", " ">>]}

(***************************************************************************)
(* The handler.  out holds the locals of the handler when it returned,     *)
(* page the body it wrote, log every request answered so far with its      *)
(* answer.                                                                 *)
(***************************************************************************)
Init ==
    /\ req = [method |-> "", form |-> EmptyForm]
    /\ phase = "idle"
    /\ out = NoLocals
    /\ page = NoPage
    /\ log = <<>>

do_GET ==
    /\ Len(log) < MaxRequests
    /\ req' = [method |-> "GET", form |-> EmptyForm]
    /\ page' = render_page(FALSE, <<>>, <<>>, <<>>, None, None, "None", None,
                           EmptyForm, <<>>)
    /\ out' = NoLocals
    /\ phase' = "done"
    /\ log' = Append(log, [req |-> req', out |-> out', page |-> page'])

do_POST(form) ==
    /\ Len(log) < MaxRequests
    /\ req' = [method |-> "POST", form |-> form]
    /\ LET h == Handle(form)
       IN  /\ out' = h.locals
           /\ page' = h.page
    /\ phase' = "done"
    /\ log' = Append(log, [req |-> req', out |-> out', page |-> page'])

\* The first request of a server that has just started.
FirstGet == phase = "idle" /\ do_GET

FirstPost ==
    /\ phase = "idle"
    /\ \E vs \in VillageInputs, ms \in MilkInputs, ds \in DistInputs,
          c \in CapacityInputs :
            do_POST([villages |-> vs, milk_data |-> ms, distances |-> ds,
                     capacity |-> c])

Next == FirstGet \/ FirstPost

Spec == Init /\ [][Next]_vars

\* serve_forever: one request after the other.
ServeGet == do_GET

ServePost == \E form \in ServeForms : do_POST(form)

NextServe == ServeGet \/ ServePost

SpecServe == Init /\ [][NextServe]_vars

(***************************************************************************)
(* Properties.                                                             *)
(***************************************************************************)
\* The last request was a POST and do_POST has answered it.
Posted == phase = "done" /\ req.method = "POST"

\* Some validation error was collected.
ErrorCollected == \E i \in DOMAIN out.messages : out.messages[i][1] = "error"

AlertShown == \E i \in DOMAIN page.messages : page.messages[i].cls = "alert"

SuccessShown == \E i \in DOMAIN page.messages : page.messages[i].cls = "success"

NothingComputed ==
    /\ ~out.computed
    /\ out.predictions = <<>>
    /\ out.route_order = <<>>
    /\ out.total_distance = None
    /\ out.total_predicted = None
    /\ out.capacity_ok = "None"

\* C1: a POST is answered with error alerts or with a computed result, never
\* both and never neither.  With an error collected nothing is computed or
\* rendered and no success banner is shown; with none, the result section
\* and the success banner are rendered and no alert is shown.
C1_ErrorsOrResult ==
    Posted =>
        IF ErrorCollected
        THEN /\ NothingComputed
             /\ page.result_section = EmptySection
             /\ AlertShown
             /\ ~SuccessShown
        ELSE /\ out.computed
             /\ page.result_section.shown
             /\ SuccessShown
             /\ ~AlertShown

\* Two errors were collected and the page shows two alerts and no result.
C1_Witness ==
    /\ Posted
    /\ Len(out.messages) = 2
    /\ Len(page.messages) = 2
    /\ ~page.result_section.shown

\* The rules of the validator, each read off the submitted strings.
RuleNoVillage == Tokens(req.form.villages) = <<>>

RuleNoMilk == Tokens(req.form.milk_data) = <<>>

RuleMilkNumbers ==
    \E i \in DOMAIN Tokens(req.form.milk_data) :
        ~IsFloat(Tokens(req.form.milk_data)[i])

RuleMilkCount ==
    LET nv == Len(Tokens(req.form.villages))
        nm == Len(Tokens(req.form.milk_data))
    IN  /\ nv > 0
        /\ nm > 0
        /\ ~RuleMilkNumbers
        /\ ~(nm = 1 /\ nv > 1)
        /\ nm # nv

DistancesGiven == Strip(req.form.distances) # <<>>

RuleDistNumbers ==
    /\ DistancesGiven
    /\ \E i \in DOMAIN Tokens(req.form.distances) :
           ~IsFloat(Tokens(req.form.distances)[i])

RuleDistCount ==
    /\ DistancesGiven
    /\ ~RuleDistNumbers
    /\ Len(Tokens(req.form.distances)) # Len(Tokens(req.form.villages))

CapacityGiven == Strip(req.form.capacity) # <<>>

\* The submitted capacity is a number strictly greater than zero.
CapacityPositive ==
    /\ IsFloat(req.form.capacity)
    /\ ToFloat(req.form.capacity).k = "num"
    /\ ToFloat(req.form.capacity).v > 0

RuleCapacity == CapacityGiven /\ ~CapacityPositive

ViolatedRules ==
    {m \in {MsgNoVillage, MsgNoMilk, MsgMilkNumbers, MsgMilkCount,
            MsgDistNumbers, MsgDistCount, MsgCapacity} :
        \/ m = MsgNoVillage /\ RuleNoVillage
        \/ m = MsgNoMilk /\ RuleNoMilk
        \/ m = MsgMilkNumbers /\ RuleMilkNumbers
        \/ m = MsgMilkCount /\ RuleMilkCount
        \/ m = MsgDistNumbers /\ RuleDistNumbers
        \/ m = MsgDistCount /\ RuleDistCount
        \/ m = MsgCapacity /\ RuleCapacity}

\* C2: the error messages a POST returns are exactly the validation rules
\* the submission violates, whatever the other fields hold.
C2_AllErrorsReported ==
    Posted =>
        /\ {out.messages[i][2] : i \in DOMAIN out.messages} = ViolatedRules
        /\ ViolatedRules # {} =>
               {page.messages[i].text : i \in DOMAIN page.messages} = ViolatedRules

\* C7: a capacity that is given and is not a number strictly greater than
\* zero yields the capacity error and no result, so a capacity that reaches
\* the computation is strictly positive.
C7_CapacityStrictlyPositive ==
    Posted =>
        /\ RuleCapacity =>
               /\ \E i \in DOMAIN out.messages : out.messages[i][2] = MsgCapacity
               /\ ~out.computed
        /\ (out.computed /\ out.vehicle_capacity # None) =>
               (out.vehicle_capacity.k = "num" /\ out.vehicle_capacity.v > 0)

\* One numeric milk value was submitted for several villages.
SingleMilkManyVillages ==
    /\ Len(Tokens(req.form.villages)) > 1
    /\ Len(Tokens(req.form.milk_data)) = 1
    /\ IsFloat(Tokens(req.form.milk_data)[1])

\* The submission with the single milk value written once per village.
RepeatedForm ==
    [req.form EXCEPT !.milk_data =
        Join([i \in 1..Len(Tokens(req.form.villages)) |->
                 Tokens(req.form.milk_data)[1]])]

\* C3: one milk value m for N > 1 villages is answered as m written N
\* times is: the same errors, predictions, route, totals and verdict.
C3_BroadcastLaw ==
    (Posted /\ SingleMilkManyVillages) =>
        /\ out = Handle(RepeatedForm).locals
        /\ page.messages = Handle(RepeatedForm).page.messages
        /\ page.result_section = Handle(RepeatedForm).page.result_section

C3_Witness ==
    /\ Posted
    /\ SingleMilkManyVillages
    /\ out.computed
    /\ Len(out.predictions) = Len(out.villages)
    /\ out.total_distance # None

\* x * 1.05 floored at zero and rounded to the hundredth, x in 1/10000.
ExpectedPrediction(x) ==
    IF x <= 0 THEN 0
    ELSE LET t == x * 105
             q == t \div 10000
             r == t % 10000
         IN  IF 2 * r > 10000 \/ (2 * r = 10000 /\ q % 2 = 1)
             THEN (q + 1) * 100
             ELSE q * 100

RECURSIVE SumValues(_)
SumValues(xs) == IF xs = <<>> THEN 0 ELSE Head(xs).v + SumValues(Tail(xs))

\* n rounded to the hundredth, n in 1/10000 and not halfway.
Nearest(n) == ((n + 50) \div 100) * 100

\* C4: each prediction is the milk value times 1.05, floored at zero and
\* rounded to two decimals; none is negative, a negative milk value gives 0,
\* and total_predicted is the rounded sum of the predictions.
C4_Predictions ==
    (Posted /\ out.computed) =>
        /\ Len(out.predictions) = Len(out.milk_data)
        /\ \A i \in DOMAIN out.predictions :
               /\ out.predictions[i].k = "num"
               /\ out.predictions[i].v >= 0
               /\ out.milk_data[i].k = "num" =>
                      out.predictions[i].v = ExpectedPrediction(out.milk_data[i].v)
               /\ (out.milk_data[i].k = "num" /\ out.milk_data[i].v < 0) =>
                      out.predictions[i].v = 0
        /\ out.total_predicted = Num(Nearest(SumValues(out.predictions)))

\* A negative value and one whose product needs rounding were predicted.
C4_Witness ==
    /\ Posted
    /\ out.computed
    /\ out.milk_data = <<Num(-200000), Num(1000700)>>
    /\ out.predictions = <<Num(0), Num(1050700)>>

\* C5: capacity_ok is absent exactly when the capacity field is blank; a
\* submitted capacity is sufficient exactly when it is at least
\* total_predicted, and the banner says so.
C5_CapacityVerdict ==
    (Posted /\ out.computed) =>
        /\ out.capacity_ok = "None" <=> ~CapacityGiven
        /\ CapacityGiven =>
               /\ out.capacity_ok = "True" <=>
                      /\ ToFloat(req.form.capacity).k = "num"
                      /\ ToFloat(req.form.capacity).v >= out.total_predicted.v
               /\ out.capacity_ok \in {"True", "False"}
        /\ page.result_section.verdict =
               (CASE out.capacity_ok = "True"  -> "Sufficient"
                  [] out.capacity_ok = "False" -> "Insufficient"
                  [] OTHER                     -> "")

\* The capacity equals the predicted total and is sufficient.
C5_Witness ==
    /\ Posted
    /\ out.computed
    /\ out.vehicle_capacity = out.total_predicted
    /\ out.total_predicted.v > 0
    /\ page.result_section.verdict = "Sufficient"

\* C6: total_distance is present exactly when the distances field is not
\* blank, and is then the rounded sum of the submitted distances; a sum of
\* zero is a present 0, rendered, unlike the absent total of no distances.
C6_TotalDistance ==
    (Posted /\ out.computed) =>
        /\ out.total_distance # None <=> DistancesGiven
        /\ DistancesGiven =>
               out.total_distance =
                   Num(Nearest(SumValues(Floats(Tokens(req.form.distances)))))
        /\ page.result_section.total_distance = out.total_distance

\* Distances that sum to zero give a total of 0, not an absent total.
C6_Witness ==
    /\ Posted
    /\ out.computed
    /\ Len(out.distances.vals) = 2
    /\ out.total_distance = Num(0)
    /\ page.result_section.total_distance = Num(0)

\* C8: the route is the parsed village list: same elements, same order.
C8_RouteIsVillages ==
    (Posted /\ out.computed) =>
        /\ out.route_order = Tokens(req.form.villages)
        /\ out.route_order = out.villages
        /\ page.result_section.route = out.villages

C8_Witness ==
    /\ Posted
    /\ out.computed
    /\ out.route_order = <<<<"B">>, <<"A">>>>
    /\ out.distances.some

\* C9: a POST is answered from its own four fields alone: the same
\* submission gets the same answer wherever it stands among the requests.
C9_SameInputSameAnswer ==
    \A i, j \in DOMAIN log :
        log[i].req = log[j].req => (log[i].out = log[j].out /\ log[i].page = log[j].page)

\* A submission was repeated with another request in between.
C9_Witness ==
    /\ Len(log) = 3
    /\ log[1].req.method = "POST"
    /\ log[1].req = log[3].req
    /\ log[2].req # log[1].req
    /\ log[1].out.computed

\* C10: when the result is computed the parsed inputs agree in length:
\* villages is not empty, milk_data and a present distances have one entry
\* per village, and so has the rendered list of predictions.
C10_LengthConsistent ==
    (Posted /\ out.computed) =>
        /\ out.villages # <<>>
        /\ Len(out.milk_data) = Len(out.villages)
        /\ out.distances.some => Len(out.distances.vals) = Len(out.villages)
        /\ Len(out.predictions) = Len(out.villages)
        /\ Len(page.result_section.items) = Len(out.villages)
        /\ \A i \in DOMAIN out.villages :
               page.result_section.items[i].name = out.villages[i]

C10_Witness ==
    /\ Posted
    /\ out.computed
    /\ Len(out.villages) = 2
    /\ out.distances.some
    /\ Len(page.result_section.items) = 2

====
